---- MODULE Spec2Model ----
(***************************************************************************)
(* The placeholder templating pass of fastrand: Randomizer and the tag     *)
(* parsers, in the two revisions the repository holds.                     *)
(*   rev = "fast" : Randomizer / parseAndReplaceFast / parseLengthFast     *)
(*                  (the revision with the encoded dialects, ranges and    *)
(*                  keyword choices)                                       *)
(*   rev = "sub"  : fastrand/randomizer.go, Randomizer / parseAndReplace / *)
(*                  parseLength                                            *)
(* and the Engine configuration: NewEngine, Reset and the options that     *)
(* register keywords (enabledKeywords, customCharsets, customKeywords).    *)
(* A byte is a one-character string; a buffer is a sequence of bytes.      *)
(* Go slices are 0-based and half open, s[lo:hi]; Slice keeps that.        *)
(***************************************************************************)
EXTENDS Integers, Sequences, FiniteSets, TLC

VARIABLES rev, input, payload, normalizedBuf, normCursor, buffer, cursor,
          length, typeKeyword, pc,
          enabledKeywords, customCharsets, customKeywords, configured

vars == <<rev, input, payload, normalizedBuf, normCursor, buffer, cursor,
          length, typeKeyword, pc,
          enabledKeywords, customCharsets, customKeywords, configured>>

----------------------------------------------------------------------------
(* Bounds of the model *)

\* number of fragments a free-form input is concatenated from
MaxFrags == 3
\* granularity of one random draw: a draw is a value of 0..RndMax
RndMax == 2
\* number of options and resets applied to one Engine
MaxConfig == 2

----------------------------------------------------------------------------
(* Slices and the bytes package *)

Slice(s, lo, hi) == SubSeq(s, lo + 1, hi)

SliceFrom(s, lo) == SubSeq(s, lo + 1, Len(s))

MinOf(S) == CHOOSE x \in S : \A y \in S : x <= y

hasPrefix(slice, prefix, pos) ==
    IF pos + Len(prefix) > Len(slice) THEN FALSE
    ELSE Slice(slice, pos, pos + Len(prefix)) = prefix

\* bytes.HasPrefix(s, prefix)
HasPrefix(s, prefix) == hasPrefix(s, prefix, 0)

\* bytes.Index(s, sep): first index of sep in s, -1 when absent
Index(s, sep) ==
    LET hits == {i \in 0..Len(s) : hasPrefix(s, sep, i)}
    IN  IF hits = {} THEN -1 ELSE MinOf(hits)

\* bytes.IndexByte(s, c)
IndexByte(s, c) ==
    LET hits == {i \in 1..Len(s) : s[i] = c}
    IN  IF hits = {} THEN -1 ELSE MinOf(hits) - 1

\* bytes.IndexAny(s, chars), chars a set of bytes
IndexAny(s, chars) ==
    LET hits == {i \in 1..Len(s) : s[i] \in chars}
    IN  IF hits = {} THEN -1 ELSE MinOf(hits) - 1

ContainsAny(s, chars) == IndexAny(s, chars) # -1

Contains(s, sep) == Index(s, sep) # -1

\* bytes.Split(s, sep) for a one-byte separator
RECURSIVE Split(_, _)
Split(s, c) ==
    LET i == IndexByte(s, c)
    IN  IF i = -1 THEN <<s>>
        ELSE <<Slice(s, 0, i)>> \o Split(SliceFrom(s, i + 1), c)

\* bytes.SplitN(s, sep, 2) for a one-byte separator
SplitN2(s, c) ==
    LET i == IndexByte(s, c)
    IN  IF i = -1 THEN <<s>>
        ELSE <<Slice(s, 0, i), SliceFrom(s, i + 1)>>

\* bytes.Repeat(b, n)
Repeat(b, n) == [i \in 1..n |-> b]

RECURSIVE Concat(_)
Concat(ss) == IF ss = <<>> THEN <<>> ELSE Head(ss) \o Concat(Tail(ss))

----------------------------------------------------------------------------
(* The package variables *)

startTag         == <<"{", "R", "A", "N", "D">>
startUrlEncoded  == <<"%", "7", "B", "R", "A", "N", "D">>
startHtmlEncoded == <<"&", "l", "b", "r", "a", "c", "e", ";", "R", "A", "N", "D">>
startTagOpt      == <<"O", "M">>
endTag           == "}"
endTagUrl        == <<"%", "7", "D">>
endTagHtml       == <<"&", "r", "b", "r", "a", "c", "e", ";">>
sepTag           == ";"
sepTagUrl        == <<"%", "3", "B">>
sepTagHtml       == <<"&", "s", "e", "m", "i", ";">>
kwABL            == <<"A", "B", "L">>
kwABU            == <<"A", "B", "U">>
kwABR            == <<"A", "B", "R">>
kwDIGIT          == <<"D", "I", "G", "I", "T">>
kwHEX            == <<"H", "E", "X">>
kwSPACE          == <<"S", "P", "A", "C", "E">>
kwUUID           == <<"U", "U", "I", "D">>
kwNULL           == <<"N", "U", "L", "L">>
kwIPV4           == <<"I", "P", "V", "4">>
kwIPV6           == <<"I", "P", "V", "6">>
kwBYTES          == <<"B", "Y", "T", "E", "S">>
kwEMAIL          == <<"E", "M", "A", "I", "L">>

defaultLength == 16
maxLen == 99

----------------------------------------------------------------------------
(* Bytes that are not printable: ByteChr[b + 1] is the byte of value b.    *)
(* Printable ASCII is the character itself; the quote, the backslash, the  *)
(* backquote and every other value are written 0xNN.                       *)

ByteChr == <<
    "0x00", "0x01", "0x02", "0x03", "0x04", "0x05", "0x06", "0x07",
    "0x08", "0x09", "0x0A", "0x0B", "0x0C", "0x0D", "0x0E", "0x0F",
    "0x10", "0x11", "0x12", "0x13", "0x14", "0x15", "0x16", "0x17",
    "0x18", "0x19", "0x1A", "0x1B", "0x1C", "0x1D", "0x1E", "0x1F",
    " ", "!", "0x22", "#", "$", "%", "&", "'",
    "(", ")", "*", "+", ",", "-", ".", "/",
    "0", "1", "2", "3", "4", "5", "6", "7",
    "8", "9", ":", ";", "<", "=", ">", "?",
    "@", "A", "B", "C", "D", "E", "F", "G",
    "H", "I", "J", "K", "L", "M", "N", "O",
    "P", "Q", "R", "S", "T", "U", "V", "W",
    "X", "Y", "Z", "[", "0x5C", "]", "^", "_",
    "0x60", "a", "b", "c", "d", "e", "f", "g",
    "h", "i", "j", "k", "l", "m", "n", "o",
    "p", "q", "r", "s", "t", "u", "v", "w",
    "x", "y", "z", "{", "|", "}", "~", "0x7F",
    "0x80", "0x81", "0x82", "0x83", "0x84", "0x85", "0x86", "0x87",
    "0x88", "0x89", "0x8A", "0x8B", "0x8C", "0x8D", "0x8E", "0x8F",
    "0x90", "0x91", "0x92", "0x93", "0x94", "0x95", "0x96", "0x97",
    "0x98", "0x99", "0x9A", "0x9B", "0x9C", "0x9D", "0x9E", "0x9F",
    "0xA0", "0xA1", "0xA2", "0xA3", "0xA4", "0xA5", "0xA6", "0xA7",
    "0xA8", "0xA9", "0xAA", "0xAB", "0xAC", "0xAD", "0xAE", "0xAF",
    "0xB0", "0xB1", "0xB2", "0xB3", "0xB4", "0xB5", "0xB6", "0xB7",
    "0xB8", "0xB9", "0xBA", "0xBB", "0xBC", "0xBD", "0xBE", "0xBF",
    "0xC0", "0xC1", "0xC2", "0xC3", "0xC4", "0xC5", "0xC6", "0xC7",
    "0xC8", "0xC9", "0xCA", "0xCB", "0xCC", "0xCD", "0xCE", "0xCF",
    "0xD0", "0xD1", "0xD2", "0xD3", "0xD4", "0xD5", "0xD6", "0xD7",
    "0xD8", "0xD9", "0xDA", "0xDB", "0xDC", "0xDD", "0xDE", "0xDF",
    "0xE0", "0xE1", "0xE2", "0xE3", "0xE4", "0xE5", "0xE6", "0xE7",
    "0xE8", "0xE9", "0xEA", "0xEB", "0xEC", "0xED", "0xEE", "0xEF",
    "0xF0", "0xF1", "0xF2", "0xF3", "0xF4", "0xF5", "0xF6", "0xF7",
    "0xF8", "0xF9", "0xFA", "0xFB", "0xFC", "0xFD", "0xFE", "0xFF" >>

----------------------------------------------------------------------------
(* The generators the pass calls.  A random draw is a value of 0..RndMax;  *)
(* Rand(seed, i, n) is the i-th value below n of the stream a draw seeds.  *)

Rand(seed, i, n) == (seed * 5 + i * (2 * seed + 3)) % n

\* rand.Intn(n): 0 and n - 1 are both outcomes
Intn(n, r) == (r * (n - 1)) \div RndMax

CharsDigits == <<
    "0", "1", "2", "3", "4", "5", "6", "7", "8", "9" >>

CharsAlphabetLower == <<
    "a", "b", "c", "d", "e", "f", "g", "h", "i", "j", "k", "l", "m", "n",
    "o", "p", "q", "r", "s", "t", "u", "v", "w", "x", "y", "z" >>

CharsAlphabetUpper == <<
    "A", "B", "C", "D", "E", "F", "G", "H", "I", "J", "K", "L", "M", "N",
    "O", "P", "Q", "R", "S", "T", "U", "V", "W", "X", "Y", "Z" >>

CharsAlphabet == CharsAlphabetLower \o CharsAlphabetUpper

CharsAlphabetDigits == CharsAlphabet \o CharsDigits

CharsSymbolChars == <<
    "!", "@", "#", "$", "%", "^", "&", "*", "(", ")", "-", "_", "=", "+",
    "[", "]", "{", "}", "|", ";", ":", ",", ".", "<", ">", "?", "/", "~" >>

CharsAll == CharsAlphabetDigits \o CharsSymbolChars

CharsNull == [i \in 1..16 |-> ByteChr[i]]

HexDigits == CharsDigits \o <<"a", "b", "c", "d", "e", "f">>

\* String(n, charset): n bytes, each one of charset
String(n, charset, seed) ==
    [i \in 1..n |-> charset[Rand(seed, i, Len(charset)) + 1]]

\* Bytes(n): n byte values
Bytes(n, seed) == [i \in 1..n |-> Rand(seed, i, 256)]

\* Choice(list)
Choice(list, seed) == list[Rand(seed, 0, Len(list)) + 1]

\* hex.Encode: two lowercase hex digits for each byte value
HexEncode(src) ==
    Concat([i \in 1..Len(src) |->
              <<HexDigits[(src[i] \div 16) + 1], HexDigits[(src[i] % 16) + 1]>>])

\* strconv.Itoa for a value of 0..255
Itoa(n) ==
    IF n < 10 THEN <<CharsDigits[n + 1]>>
    ELSE IF n < 100 THEN <<CharsDigits[(n \div 10) + 1], CharsDigits[(n % 10) + 1]>>
    ELSE <<CharsDigits[(n \div 100) + 1], CharsDigits[((n \div 10) % 10) + 1],
           CharsDigits[(n % 10) + 1]>>

\* MustFastUUID: 16 byte values, version 4, variant 10
MustFastUUID(seed) ==
    LET b == Bytes(16, seed)
    IN  [i \in 1..16 |->
           IF i = 7 THEN (b[i] % 16) + 64
           ELSE IF i = 9 THEN (b[i] % 64) + 128
           ELSE b[i]]

\* IPv4().String(): four byte values in dotted decimal
IPv4String(seed) ==
    LET b == Bytes(4, seed)
    IN  Itoa(b[1]) \o <<".">> \o Itoa(b[2]) \o <<".">> \o Itoa(b[3])
          \o <<".">> \o Itoa(b[4])

\* one 16-bit group of an IPv6 address in hex, leading zeros dropped
HexGroup(v) ==
    LET d == <<v \div 4096, (v \div 256) % 16, (v \div 16) % 16, v % 16>>
        first == IF v = 0 THEN 4 ELSE MinOf({i \in 1..4 : d[i] # 0})
    IN  [i \in 1..(5 - first) |-> HexDigits[d[first + i - 1] + 1]]

\* IPv6().String(): eight groups, the longest run of two or more zero
\* groups (the first of the longest) written "::"
IPv6String(seed) ==
    LET b == Bytes(16, seed)
        g == [i \in 1..8 |-> b[2 * i - 1] * 256 + b[2 * i]]
        runs == {r \in (1..8) \X (2..8) :
                   /\ r[1] + r[2] - 1 <= 8
                   /\ \A i \in r[1]..(r[1] + r[2] - 1) : g[i] = 0}
        best == CHOOSE r \in runs :
                   \A q \in runs : q[2] < r[2] \/ (q[2] = r[2] /\ q[1] >= r[1])
        Join(lo, hi) ==
            Concat([i \in 1..(hi - lo + 1) |->
                      IF i = 1 THEN HexGroup(g[lo]) ELSE <<":">> \o HexGroup(g[lo + i - 1])])
    IN  IF runs = {} THEN Join(1, 8)
        ELSE Join(1, best[1] - 1) \o <<":", ":">> \o Join(best[1] + best[2], 8)

\* the provider list init() loads from mail_providers.txt
SafeMailProviders ==
    << <<"g", "m", "a", "i", "l", ".", "c", "o", "m">>,
       <<"p", "r", "o", "t", "o", "n", ".", "m", "e">> >>

----------------------------------------------------------------------------
(* Length fields *)

IsDigit(c) == c \in {CharsDigits[i] : i \in 1..10}

\* c - '0' for a digit c
DigitVal(c) == (CHOOSE i \in 1..10 : CharsDigits[i] = c) - 1

\* parseLengthFast with the tens digit not weighted
parseLengthFast_NoTens(b) ==
    IF Len(b) = 1 /\ IsDigit(b[1])
    THEN [val |-> DigitVal(b[1]), ok |-> TRUE]
    ELSE IF Len(b) = 2 /\ IsDigit(b[1]) /\ IsDigit(b[2])
    THEN [val |-> DigitVal(b[1]) + DigitVal(b[2]), ok |-> TRUE]
    ELSE [val |-> 0, ok |-> FALSE]

parseLengthFast(b) ==
    IF Len(b) = 1 /\ IsDigit(b[1])
    THEN [val |-> DigitVal(b[1]), ok |-> TRUE]
    ELSE IF Len(b) = 2 /\ IsDigit(b[1]) /\ IsDigit(b[2])
    THEN [val |-> DigitVal(b[1]) * 10 + DigitVal(b[2]), ok |-> TRUE]
    ELSE [val |-> 0, ok |-> FALSE]

RECURSIVE DecVal(_)
DecVal(s) ==
    IF s = <<>> THEN 0
    ELSE DecVal(SubSeq(s, 1, Len(s) - 1)) * 10 + DigitVal(s[Len(s)])

\* strconv.Atoi: an optional sign, then one or more decimal digits
Atoi(s) ==
    LET signed == Len(s) > 0 /\ s[1] \in {"+", "-"}
        digits == IF signed THEN Tail(s) ELSE s
    IN  IF Len(digits) = 0 \/ \E i \in 1..Len(digits) : ~IsDigit(digits[i])
        THEN [val |-> 0, ok |-> FALSE]
        ELSE [val |-> IF signed /\ s[1] = "-" THEN 0 - DecVal(digits)
                      ELSE DecVal(digits),
              ok |-> TRUE]

parseLength(b) ==
    IF Len(b) = 0 \/ Len(b) > 2 THEN [val |-> 0, ok |-> FALSE]
    ELSE LET a == Atoi(b)
         IN  IF ~a.ok THEN [val |-> 0, ok |-> FALSE]
             ELSE IF a.val > 0 /\ a.val <= maxLen THEN [val |-> a.val, ok |-> TRUE]
             ELSE [val |-> 0, ok |-> FALSE]

----------------------------------------------------------------------------
(* Generators of this file *)

generateUUID(seed) ==
    LET uuid == MustFastUUID(seed)
    IN  HexEncode(SubSeq(uuid, 1, 4)) \o <<"-">> \o HexEncode(SubSeq(uuid, 5, 6))
          \o <<"-">> \o HexEncode(SubSeq(uuid, 7, 8)) \o <<"-">>
          \o HexEncode(SubSeq(uuid, 9, 10)) \o <<"-">> \o HexEncode(SubSeq(uuid, 11, 16))

generateRandomEmail(userLength0, seed) ==
    LET userLength == IF userLength0 <= 0 THEN 8 ELSE userLength0
        user == String(userLength, CharsAlphabetLower, seed)
        provider == IF Len(SafeMailProviders) > 0 THEN Choice(SafeMailProviders, seed)
                    ELSE <<"g", "m", "a", "i", "l", ".", "c", "o", "m">>
    IN  user \o <<"@">> \o provider

generateRandomHex(byteLength0, seed) ==
    LET byteLength == IF byteLength0 <= 0 THEN defaultLength ELSE byteLength0
    IN  HexEncode(Bytes(byteLength, seed))

\* the switch on typeKeyword that ends parseAndReplaceFast and parseAndReplace:
\* the bytes written for a keyword and a length
keywordSwitch(kw, len, seed) ==
    IF kw = kwABL THEN String(len, CharsAlphabetLower, seed)
    ELSE IF kw = kwABU THEN String(len, CharsAlphabetUpper, seed)
    ELSE IF kw = kwABR THEN String(len, CharsAlphabet, seed)
    ELSE IF kw = kwDIGIT THEN String(len, CharsDigits, seed)
    ELSE IF kw = kwNULL THEN [i \in 1..len |-> CharsNull[Rand(seed, i, 16) + 1]]
    ELSE IF kw = kwSPACE THEN Repeat(" ", len)
    ELSE IF kw = kwUUID THEN generateUUID(seed)
    ELSE IF kw = kwBYTES THEN [i \in 1..len |-> ByteChr[Bytes(len, seed)[i] + 1]]
    ELSE IF kw = kwIPV4 THEN IPv4String(seed)
    ELSE IF kw = kwIPV6 THEN IPv6String(seed)
    ELSE IF kw = kwEMAIL THEN generateRandomEmail(len, seed)
    ELSE IF kw = kwHEX THEN generateRandomHex(len, seed)
    ELSE String(len, CharsAll, seed)

----------------------------------------------------------------------------------------------------------------------------------------
(* The tag parsers.  tag is the span from the tag-open to, not including,  *)
(* the tag-close.  A call draws at random three times at most: range for   *)
(* the length of a range, choice for the keyword of a list, seed for the   *)
(* generator.  resolve* is the parser up to its switch: the path taken     *)
(* (empty, reemit, switch) and the locals length and typeKeyword there (a  *)
(* nil typeKeyword is the empty sequence: bytes.Equal tells no             *)
(* difference).  emitTag is what the call writes.                          *)

Draws == 0..RndMax

Rnd == [range : Draws, choice : Draws, seed : Draws]

\* tag[len(startTag):], and past "OM" when it follows
stripStart(tag) ==
    LET t == SliceFrom(tag, Len(startTag))
    IN  IF HasPrefix(t, startTagOpt) THEN SliceFrom(t, Len(startTagOpt)) ELSE t

\* the bytes written for a tag whose body does not begin with the separator
reemit(tag) ==
    startTag \o (IF HasPrefix(tag, startTagOpt) THEN startTagOpt ELSE <<>>) \o tag

\* the length of a range field
rangeLength(lenPart, rangeSepIndex, range) ==
    LET minX == parseLengthFast(Slice(lenPart, 0, rangeSepIndex))
        maxX == parseLengthFast(SliceFrom(lenPart, rangeSepIndex + 1))
    IN  IF minX.ok /\ maxX.ok /\ minX.val <= maxX.val
        THEN Intn(maxX.val - minX.val + 1, range) + minX.val
        ELSE defaultLength

\* one keyword of a comma-separated list
chooseKeyword(kw, choice) ==
    IF Contains(kw, <<",">>)
    THEN LET choices == Split(kw, ",")
         IN  choices[Intn(Len(choices), choice) + 1]
    ELSE kw

resolveFast(tag0, range, choice) ==
    LET tag == stripStart(tag0)
    IN  IF Len(tag) = 0
        THEN [path |-> "empty", body |-> tag, length |-> defaultLength,
              typeKeyword |-> <<>>]
        ELSE IF tag[1] # sepTag
        THEN [path |-> "reemit", body |-> tag, length |-> 0, typeKeyword |-> <<>>]
        ELSE
          LET body == SliceFrom(tag, 1)
              sepIndex == IndexByte(body, sepTag)
              lenPart == IF sepIndex = -1 THEN body ELSE Slice(body, 0, sepIndex)
              type0 == IF sepIndex = -1 THEN <<>> ELSE SliceFrom(body, sepIndex + 1)
              rangeSepIndex == IndexByte(lenPart, "-")
              l == parseLengthFast(lenPart)
              len == IF rangeSepIndex # -1
                     THEN rangeLength(lenPart, rangeSepIndex, range)
                     ELSE IF l.ok /\ l.val > 0 THEN l.val ELSE defaultLength
              type1 == IF rangeSepIndex = -1 /\ ~(l.ok /\ l.val > 0) /\ sepIndex = -1
                       THEN lenPart ELSE type0
          IN  [path |-> "switch", body |-> tag, length |-> len,
               typeKeyword |-> chooseKeyword(type1, choice)]

resolveSub(tag0) ==
    LET tag == stripStart(tag0)
    IN  IF Len(tag) = 0
        THEN [path |-> "empty", body |-> tag, length |-> defaultLength,
              typeKeyword |-> <<>>]
        ELSE IF tag[1] # sepTag
        THEN [path |-> "reemit", body |-> tag, length |-> 0, typeKeyword |-> <<>>]
        ELSE
          LET parts == SplitN2(SliceFrom(tag, 1), sepTag)
              l == parseLength(parts[1])
              len == IF l.ok THEN l.val ELSE defaultLength
              type == IF Len(parts) = 1
                      THEN IF l.ok THEN <<>> ELSE parts[1]
                      ELSE parts[2]
          IN  [path |-> "switch", body |-> tag, length |-> len, typeKeyword |-> type]

\* the bytes a resolved tag writes
emitTag(h, seed) ==
    IF h.path = "empty" THEN String(defaultLength, CharsAll, seed)
    ELSE IF h.path = "reemit" THEN reemit(h.body)
    ELSE keywordSwitch(h.typeKeyword, h.length, seed)

parseAndReplaceFast(tag, rnd) == emitTag(resolveFast(tag, rnd.range, rnd.choice), rnd.seed)

parseAndReplace(tag, rnd) == emitTag(resolveSub(tag), rnd.seed)

----------------
(* The two loops of Randomizer, one iteration each *)

\* delimiterAt with no cursor++ in the last branch
delimiterAt_Stuck(p, c) ==
    IF hasPrefix(p, startUrlEncoded, c)
    THEN [write |-> startTag, advance |-> Len(startUrlEncoded)]
    ELSE IF hasPrefix(p, startHtmlEncoded, c)
    THEN [write |-> startTag, advance |-> Len(startHtmlEncoded)]
    ELSE IF hasPrefix(p, endTagUrl, c)
    THEN [write |-> <<endTag>>, advance |-> Len(endTagUrl)]
    ELSE IF hasPrefix(p, endTagHtml, c)
    THEN [write |-> <<endTag>>, advance |-> Len(endTagHtml)]
    ELSE IF hasPrefix(p, sepTagUrl, c)
    THEN [write |-> <<sepTag>>, advance |-> Len(sepTagUrl)]
    ELSE IF hasPrefix(p, sepTagHtml, c)
    THEN [write |-> <<sepTag>>, advance |-> Len(sepTagHtml)]
    ELSE [write |-> <<p[c + 1]>>, advance |-> 0]

\* delimiterAt with the HTML-entity separator written as a tag-close
delimiterAt_SemiAsClose(p, c) ==
    IF hasPrefix(p, startUrlEncoded, c)
    THEN [write |-> startTag, advance |-> Len(startUrlEncoded)]
    ELSE IF hasPrefix(p, startHtmlEncoded, c)
    THEN [write |-> startTag, advance |-> Len(startHtmlEncoded)]
    ELSE IF hasPrefix(p, endTagUrl, c)
    THEN [write |-> <<endTag>>, advance |-> Len(endTagUrl)]
    ELSE IF hasPrefix(p, endTagHtml, c)
    THEN [write |-> <<endTag>>, advance |-> Len(endTagHtml)]
    ELSE IF hasPrefix(p, sepTagUrl, c)
    THEN [write |-> <<sepTag>>, advance |-> Len(sepTagUrl)]
    ELSE IF hasPrefix(p, sepTagHtml, c)
    THEN [write |-> <<endTag>>, advance |-> Len(sepTagHtml)]
    ELSE [write |-> <<p[c + 1]>>, advance |-> 1]

\* the if-chain of the normalization loop at a "%" or "&": the bytes
\* written and the bytes of payload consumed
delimiterAt(p, c) ==
    IF hasPrefix(p, startUrlEncoded, c)
    THEN [write |-> startTag, advance |-> Len(startUrlEncoded)]
    ELSE IF hasPrefix(p, startHtmlEncoded, c)
    THEN [write |-> startTag, advance |-> Len(startHtmlEncoded)]
    ELSE IF hasPrefix(p, endTagUrl, c)
    THEN [write |-> <<endTag>>, advance |-> Len(endTagUrl)]
    ELSE IF hasPrefix(p, endTagHtml, c)
    THEN [write |-> <<endTag>>, advance |-> Len(endTagHtml)]
    ELSE IF hasPrefix(p, sepTagUrl, c)
    THEN [write |-> <<sepTag>>, advance |-> Len(sepTagUrl)]
    ELSE IF hasPrefix(p, sepTagHtml, c)
    THEN [write |-> <<sepTag>>, advance |-> Len(sepTagHtml)]
    ELSE [write |-> <<p[c + 1]>>, advance |-> 1]

\* one iteration of the normalization loop, entered with c < len(p)
normalizeIteration(p, c, buf) ==
    LET idx == IndexAny(SliceFrom(p, c), {"%", "&"})
        d == delimiterAt(p, c + idx)
    IN  IF idx = -1
        THEN [buf |-> buf \o SliceFrom(p, c), cursor |-> c, brk |-> TRUE]
        ELSE [buf |-> buf \o Slice(p, c, c + idx) \o d.write,
              cursor |-> c + idx + d.advance, brk |-> FALSE]

\* the parser of a revision up to its switch
resolveTag(r, tag, range, choice) ==
    IF r = "fast" THEN resolveFast(tag, range, choice) ELSE resolveSub(tag)

\* unterminated with the tag-open itself left out
unterminated_DropOpen(p, s) == SliceFrom(p, s + Len(startTag))

\* what the scan loop writes for a tag-open at s with no tag-close after it
unterminated(p, s) == SliceFrom(p, s)

\* the cursor after a tag that ends at endIndex
pastTag(endIndex) == endIndex + 1

\* one iteration of the scan loop up to the call of the parser: the
\* tag-open and tag-close found from the cursor
scanFind(p, c) ==
    LET startIndex == Index(SliceFrom(p, c), startTag)
        s == startIndex + c
        endIndex == IndexByte(SliceFrom(p, s), endTag)
    IN  IF startIndex = -1 THEN [found |-> "none", s |-> c, e |-> c]
        ELSE IF endIndex = -1 THEN [found |-> "open", s |-> s, e |-> s]
        ELSE [found |-> "tag", s |-> s, e |-> endIndex + s]

\* the containment check that returns the payload as it is
fastPath(r, p) ==
    IF r = "fast" THEN ~ContainsAny(p, {"{", "%", "&"}) ELSE ~Contains(p, startTag)

\* whether the payload goes through the normalization loop
needsNormalize(r, p) == r = "fast" /\ ContainsAny(p, {"%", "&"})

----------------------------------------------------------------------------
(* The inputs *)

Revisions == {"fast", "sub"}

Fragments ==
    { startTag, startUrlEncoded, startHtmlEncoded, startTagOpt,
      <<";">>, sepTagUrl, <<"}">>, endTagUrl, endTagHtml, <<"x">> }

\* free-form buffers: up to MaxFrags fragments, concatenated
FragInputs ==
    {Concat(fs) : fs \in UNION {[1..n -> Fragments] : n \in 0..MaxFrags}}

\* every spelling of a number in one or two decimal digits
DigitFields ==
    {<<CharsDigits[i]>> : i \in 1..10}
      \cup {<<CharsDigits[i], CharsDigits[j]>> : i \in 1..10, j \in 1..10}

\* length fields that are not one or two digits
OddLenFields ==
    { <<>>, <<"1", "0", "0">>, <<"0", "0", "5">>, <<"+", "5">>, <<"-", "5">>,
      <<"+", "0">>, <<"+">>, <<"5", "x">>, <<"x">>, <<"5", "-">>, <<"1", ",", "2">>,
      <<" ", "5">> }

LenFields == DigitFields \cup OddLenFields

ClassKeywords == {kwABL, kwABU, kwABR, kwDIGIT}

Keywords ==
    ClassKeywords \cup {kwHEX, kwSPACE, kwUUID, kwNULL, kwIPV4, kwIPV6, kwBYTES, kwEMAIL}

KeywordLists ==
    { kwABL \o <<",">> \o kwDIGIT, kwDIGIT \o <<",">> \o kwABL,
      kwABU \o <<",">> \o kwDIGIT \o <<",">> \o kwHEX }

TypeFields ==
    Keywords \cup KeywordLists \cup {<<>>, <<"d", "i", "g", "i", "t">>, <<"f", "o", "o">>}

\* the ends of the ranges
RangeEnds ==
    { <<"0">>, <<"1">>, <<"3">>, <<"5">>, <<"9">>, <<"0", "0">>, <<"0", "5">>,
      <<"1", "0">>, <<"1", "6">>, <<"5", "0">>, <<"9", "9">> }

RangeFields == {a \o <<"-">> \o b : a \in RangeEnds, b \in RangeEnds}

Dialects == {"raw", "url", "html"}

open(d) == IF d = "url" THEN startUrlEncoded
           ELSE IF d = "html" THEN startHtmlEncoded ELSE startTag

sep(d) == IF d = "url" THEN sepTagUrl ELSE IF d = "html" THEN sepTagHtml ELSE <<sepTag>>

close(d) == IF d = "url" THEN endTagUrl ELSE IF d = "html" THEN endTagHtml ELSE <<endTag>>

\* the tag of two fields, its delimiters in dialect d
Tag2(d, om, L, K) == open(d) \o om \o sep(d) \o L \o sep(d) \o K \o close(d)

\* the tag of one field
Tag1(d, om, F) == open(d) \o om \o sep(d) \o F \o close(d)

Oms == {<<>>, startTagOpt}

DialectLenFields == {<<"8">>, <<"5">>, <<"1", "6">>, <<>>, <<"+", "5">>, <<"3", "-", "5">>}

DialectTypeFields == {kwHEX, kwDIGIT, kwABL, kwABL \o <<",">> \o kwDIGIT}

TagInputs ==
    {Tag2("raw", <<>>, L, K) : L \in LenFields, K \in TypeFields}
      \cup {Tag2(d, om, L, K) : d \in Dialects, om \in Oms,
                                L \in DialectLenFields, K \in DialectTypeFields}
      \cup {Tag2("raw", <<>>, L, K) : L \in RangeFields, K \in {kwABL, kwDIGIT, kwHEX}}
      \cup {Tag1("raw", <<>>, F) : F \in LenFields \cup RangeFields \cup TypeFields}

\* tags among literal bytes
Literals ==
    {<<>>, <<"x">>, <<"a", "%", "3", "B", "b">>, <<"}", "y">>, <<"5", "%", "&", "{">>}

SomeTags ==
    { <<>>, Tag2("raw", <<>>, <<"2">>, kwDIGIT), startTag \o <<"f", "o", "o", "}">>,
      startTag \o startTagOpt \o <<"f", "}">>, startTag \o <<";", "3">> }

MixedInputs ==
    {pre \o t1 \o mid \o t2 \o post :
       pre \in Literals, mid \in {<<>>, <<"x">>}, post \in Literals,
       t1 \in SomeTags, t2 \in SomeTags}

Inputs == FragInputs \cup TagInputs \cup MixedInputs

----------------------------------------------------------------------------
(* The Engine configuration: the keyword maps of Engine, NewEngine, Reset  *)
(* and the options that write them.  A map is a function on its keys.      *)

asciiLower == <<
    "a", "b", "c", "d", "e", "f", "g", "h", "i", "j", "k", "l", "m", "n",
    "o", "p", "q", "r", "s", "t", "u", "v", "w", "x", "y", "z" >>

asciiUpper == <<
    "A", "B", "C", "D", "E", "F", "G", "H", "I", "J", "K", "L", "M", "N",
    "O", "P", "Q", "R", "S", "T", "U", "V", "W", "X", "Y", "Z" >>

ToUpperByte(c) ==
    IF \E i \in 1..26 : asciiLower[i] = c
    THEN asciiUpper[CHOOSE i \in 1..26 : asciiLower[i] = c]
    ELSE c

\* strings.ToUpper
ToUpper(s) == [i \in 1..Len(s) |-> ToUpperByte(s[i])]

\* m[k] = v
MapSet(m, k, v) == [x \in DOMAIN m \cup {k} |-> IF x = k THEN v ELSE m[x]]

\* the names of the built-in keywords
allKeywords ==
    {kwABL, kwABU, kwABR, kwDIGIT, kwHEX, kwSPACE, kwUUID, kwNULL, kwIPV4,
     kwIPV6, kwBYTES, kwEMAIL}

\* the keyword maps of NewEngine() before its options
NewEngine ==
    [enabledKeywords |-> [kw \in allKeywords |-> TRUE],
     customCharsets  |-> <<>>,
     customKeywords  |-> <<>>]

\* the loop of WithDisabledKeywords from keywords[i] on
RECURSIVE disableFrom(_, _, _)
disableFrom(m, keywords, i) ==
    IF i > Len(keywords) THEN m
    ELSE disableFrom(MapSet(m, ToUpper(keywords[i]), FALSE), keywords, i + 1)

WithDisabledKeywords(m, keywords) == disableFrom(m, keywords, 1)

WithCustomCharset(m, keyword, charset) == MapSet(m, ToUpper(keyword), charset)

WithCustomKeyword(m, keyword, generator) == MapSet(m, ToUpper(keyword), generator)

\* the names the options are called with
DisableNames ==
    { kwHEX, <<"h", "e", "x">>, <<"D", "i", "g", "i", "t">>, <<"f", "o", "o">> }

DisableArgs ==
    {<<n>> : n \in DisableNames} \cup {<<n1, n2>> : n1 \in DisableNames, n2 \in DisableNames}

CharsetNames == { <<"v", "o", "w">>, <<"V", "O", "W">>, kwABL }

CharsetArgs == { <<"a", "e", "i", "o", "u">>, <<"0", "1">> }

GeneratorNames == { <<"t", "o", "k">>, <<"T", "o", "k">> }

GeneratorArgs == {"generatorA", "generatorB"}

\* the type fields of the tags resolved after configuration
EngineTypeFields ==
    { kwHEX, <<"h", "e", "x">>, kwDIGIT, <<"d", "i", "g", "i", "t">>,
      <<"D", "i", "g", "i", "t">>, kwABL, <<"a", "b", "l">>, <<"v", "o", "w">> }

EngineLenFields == { <<"8">>, <<"5">> }

EngineInputs ==
    {Tag2("raw", <<>>, L, K) : L \in EngineLenFields, K \in EngineTypeFields}
      \cup {Tag2("html", <<>>, <<"8">>, kwHEX), Tag2("url", <<>>, <<"5">>, kwDIGIT)}

----------------------------------------------------------------------------
(* The pass *)

Init ==
    /\ rev = "fast"
    /\ input = <<>>
    /\ payload = <<>>
    /\ normalizedBuf = <<>>
    /\ normCursor = 0
    /\ buffer = <<>>
    /\ cursor = 0
    /\ length = 0
    /\ typeKeyword = <<>>
    /\ pc = "idle"
    /\ enabledKeywords = NewEngine.enabledKeywords
    /\ customCharsets = NewEngine.customCharsets
    /\ customKeywords = NewEngine.customKeywords
    /\ configured = 0

engineVars == <<enabledKeywords, customCharsets, customKeywords, configured>>

passVars == <<rev, input, payload, normalizedBuf, normCursor, buffer, cursor,
              length, typeKeyword, pc>>

\* Randomizer(payload) is called, in one of the revisions
Call ==
    /\ pc = "idle"
    /\ rev' \in Revisions
    /\ input' \in Inputs
    /\ payload' = input'
    /\ pc' = "entry"
    /\ UNCHANGED <<normalizedBuf, normCursor, buffer, cursor, length, typeKeyword>>
    /\ UNCHANGED engineVars

\* Randomizer up to its first loop
Enter ==
    /\ pc = "entry"
    /\ IF fastPath(rev, payload)
       THEN /\ buffer' = payload
            /\ pc' = "done"
       ELSE /\ buffer' = buffer
            /\ pc' = IF needsNormalize(rev, payload) THEN "normalize" ELSE "scan"
    /\ UNCHANGED <<rev, input, payload, normalizedBuf, normCursor, cursor,
                   length, typeKeyword>>
    /\ UNCHANGED engineVars

\* one iteration of the normalization loop; on break the normalized
\* buffer becomes the payload
NormalizeStep ==
    /\ pc = "normalize"
    /\ normCursor < Len(payload)
    /\ LET it == normalizeIteration(payload, normCursor, normalizedBuf)
       IN  /\ normalizedBuf' = it.buf
           /\ normCursor' = it.cursor
           /\ payload' = IF it.brk THEN it.buf ELSE payload
           /\ pc' = IF it.brk THEN "scan" ELSE "normalize"
    /\ UNCHANGED <<rev, input, buffer, cursor, length, typeKeyword>>
    /\ UNCHANGED engineVars

\* the loop condition fails: the normalized buffer becomes the payload
NormalizeExit ==
    /\ pc = "normalize"
    /\ normCursor >= Len(payload)
    /\ payload' = normalizedBuf
    /\ pc' = "scan"
    /\ UNCHANGED <<rev, input, normalizedBuf, normCursor, buffer, cursor,
                   length, typeKeyword>>
    /\ UNCHANGED engineVars

\* one iteration of the scan loop, the tag parser included
ScanStep ==
    /\ pc = "scan"
    /\ LET f == scanFind(payload, cursor)
       IN  IF f.found = "none"
           THEN /\ buffer' = buffer \o SliceFrom(payload, cursor)
                /\ pc' = "done"
                /\ UNCHANGED <<cursor, length, typeKeyword>>
           ELSE IF f.found = "open"
           THEN /\ buffer' = buffer \o Slice(payload, cursor, f.s)
                               \o unterminated(payload, f.s)
                /\ cursor' = f.s
                /\ pc' = "done"
                /\ UNCHANGED <<length, typeKeyword>>
           ELSE \E h \in {resolveTag(rev, Slice(payload, f.s, f.e), range, choice) :
                            range \in Draws, choice \in Draws} :
                \E seed \in Draws :
                   /\ buffer' = buffer \o Slice(payload, cursor, f.s) \o emitTag(h, seed)
                   /\ cursor' = pastTag(f.e)
                   /\ length' = IF h.path = "switch" THEN h.length ELSE length
                   /\ typeKeyword' = IF h.path = "switch" THEN h.typeKeyword
                                     ELSE typeKeyword
                   /\ pc' = "scan"
    /\ UNCHANGED <<rev, input, payload, normalizedBuf, normCursor>>
    /\ UNCHANGED engineVars

Next == Call \/ Enter \/ NormalizeStep \/ NormalizeExit \/ ScanStep

Spec == Init /\ [][Next]_vars

\* the steps of a pass
Pass == Enter \/ NormalizeStep \/ NormalizeExit \/ ScanStep

\* a pass is under way
Running == pc \in {"entry", "normalize", "scan"}

\* A pass that has started runs on: it is synchronous and nothing suspends
\* it.  This is weak fairness of Pass, with ENABLED <<Pass>>_vars written
\* as Running: a step of Pass is possible exactly while a pass is under way.
FairSpec == Spec /\ ([]<>(~Running) \/ []<><<Pass>>_vars)

----------------
(* The Engine is configured, then a buffer is substituted *)

\* an option WithDisabledKeywords(keywords...) is applied
DisableKeywords ==
    /\ pc = "idle"
    /\ configured < MaxConfig
    /\ \E keywords \in DisableArgs :
         enabledKeywords' = WithDisabledKeywords(enabledKeywords, keywords)
    /\ configured' = configured + 1
    /\ UNCHANGED <<customCharsets, customKeywords>>
    /\ UNCHANGED passVars

\* an option WithCustomCharset(keyword, charset) is applied
CustomCharset ==
    /\ pc = "idle"
    /\ configured < MaxConfig
    /\ \E keyword \in CharsetNames, charset \in CharsetArgs :
         customCharsets' = WithCustomCharset(customCharsets, keyword, charset)
    /\ configured' = configured + 1
    /\ UNCHANGED <<enabledKeywords, customKeywords>>
    /\ UNCHANGED passVars

\* an option WithCustomKeyword(keyword, generator) is applied
CustomKeyword ==
    /\ pc = "idle"
    /\ configured < MaxConfig
    /\ \E keyword \in GeneratorNames, generator \in GeneratorArgs :
         customKeywords' = WithCustomKeyword(customKeywords, keyword, generator)
    /\ configured' = configured + 1
    /\ UNCHANGED <<enabledKeywords, customCharsets>>
    /\ UNCHANGED passVars

\* e.Reset(): the Engine is a fresh one
Reset ==
    /\ pc = "idle"
    /\ configured < MaxConfig
    /\ enabledKeywords' = NewEngine.enabledKeywords
    /\ customCharsets' = NewEngine.customCharsets
    /\ customKeywords' = NewEngine.customKeywords
    /\ configured' = configured + 1
    /\ UNCHANGED passVars

\* Randomizer(payload) is called on a tag, the Engine configured
EngineCall ==
    /\ pc = "idle"
    /\ rev' \in Revisions
    /\ input' \in EngineInputs
    /\ payload' = input'
    /\ pc' = "entry"
    /\ UNCHANGED <<normalizedBuf, normCursor, buffer, cursor, length, typeKeyword>>
    /\ UNCHANGED engineVars

EngineNext ==
    \/ DisableKeywords \/ CustomCharset \/ CustomKeyword \/ Reset
    \/ EngineCall \/ Enter \/ NormalizeStep \/ NormalizeExit \/ ScanStep

EngineSpec == Init /\ [][EngineNext]_vars

TypeOK ==
    /\ rev \in Revisions
    /\ pc \in {"idle", "entry", "normalize", "scan", "done"}
    /\ cursor \in 0..Len(payload)
    /\ normCursor \in 0..Len(input)

----------------------------------------------------------------------------
(* Vocabulary of the properties *)

SetOf(s) == {s[i] : i \in 1..Len(s)}

AllIn(buf, charset) == \A i \in 1..Len(buf) : buf[i] \in SetOf(charset)

\* the character class of a class keyword
ClassChars(K) ==
    IF K = kwABL THEN CharsAlphabetLower
    ELSE IF K = kwABU THEN CharsAlphabetUpper
    ELSE IF K = kwABR THEN CharsAlphabet
    ELSE CharsDigits

\* no tag-open marker of any dialect
NoOpenMarker(s) ==
    /\ ~Contains(s, startTag)
    /\ ~Contains(s, startUrlEncoded)
    /\ ~Contains(s, startHtmlEncoded)

\* a tag-open of the scanned buffer at s with no tag-close at or after it
UnterminatedAt(p, s) ==
    /\ hasPrefix(p, startTag, s)
    /\ IndexByte(SliceFrom(p, s), endTag) = -1

----------------------------------------------------------------------------
(* C1. Passthrough identity: a buffer that holds no tag-open marker of any *)
(* dialect, whatever other "%" or "&" sequences it holds, is returned      *)
(* byte for byte.                                                          *)
(* The revision with the dialects rewrites every %7D, &rbrace;, %3B and    *)
(* &semi; of such a buffer: TLC refutes the statement.                     *)

C1_PassthroughIdentity ==
    (pc = "done" /\ NoOpenMarker(input)) => buffer = input

----------------------------------------------------------------------------
(* C2. Malformed tag recovery: a span {RAND, optional OM, body, } whose    *)
(* body is not empty and does not begin with ";" is emitted byte for byte, *)
(* the optional OM and the closing } included.                             *)
(* Both revisions drop the closing } (and an OM that the body does not     *)
(* repeat): TLC refutes the statement.                                     *)

\* s is one such span and nothing else
MalformedSpan(s) ==
    /\ HasPrefix(s, startTag)
    /\ IndexByte(s, endTag) = Len(s) - 1
    /\ LET rest == Slice(s, Len(startTag), Len(s) - 1)
           body == IF HasPrefix(rest, startTagOpt)
                   THEN SliceFrom(rest, Len(startTagOpt)) ELSE rest
       IN  /\ Len(rest) > 0 /\ rest[1] # sepTag
           /\ Len(body) > 0 /\ body[1] # sepTag

C2_MalformedTagRecovery ==
    (pc = "done" /\ MalformedSpan(input)) => buffer = input

----------------------------------------------------------------------------
(* C3. Literal preservation: the bytes of the input outside every span     *)
(* from a tag-open marker to its nearest following tag-close marker are in *)
(* the output, unchanged and in their order; encoded sequences outside the *)
(* tags are not rewritten.                                                 *)
(* The revision with the dialects rewrites the encoded separators and      *)
(* tag-closes that lie outside the tags: TLC refutes the statement.        *)

\* the markers are those of the dialects the revision r reads
OpenLenAt(r, s, i) ==
    IF hasPrefix(s, startTag, i) THEN Len(startTag)
    ELSE IF r = "fast" /\ hasPrefix(s, startUrlEncoded, i) THEN Len(startUrlEncoded)
    ELSE IF r = "fast" /\ hasPrefix(s, startHtmlEncoded, i) THEN Len(startHtmlEncoded)
    ELSE 0

CloseLenAt(r, s, i) ==
    IF hasPrefix(s, <<endTag>>, i) THEN 1
    ELSE IF r = "fast" /\ hasPrefix(s, endTagUrl, i) THEN Len(endTagUrl)
    ELSE IF r = "fast" /\ hasPrefix(s, endTagHtml, i) THEN Len(endTagHtml)
    ELSE 0

\* the literal stretches of s from position from on, in order
RECURSIVE LiteralSpans(_, _, _)
LiteralSpans(r, s, from) ==
    LET opens == {i \in from..Len(s) : OpenLenAt(r, s, i) > 0}
        o == MinOf(opens)
        closes == {i \in o..Len(s) : CloseLenAt(r, s, i) > 0}
        c == MinOf(closes)
    IN  IF opens = {} THEN <<SliceFrom(s, from)>>
        ELSE IF closes = {} THEN <<SliceFrom(s, from)>>
        ELSE <<Slice(s, from, o)>> \o LiteralSpans(r, s, c + CloseLenAt(r, s, c))

\* buf, read from pos, is lits[k], anything, lits[k+1], ..., anything,
\* and ends with the last of lits
RECURSIVE Embeds(_, _, _, _)
Embeds(buf, pos, lits, k) ==
    IF k = Len(lits)
    THEN /\ Len(buf) - Len(lits[k]) >= pos
         /\ SliceFrom(buf, Len(buf) - Len(lits[k])) = lits[k]
    ELSE LET hits == {i \in pos..Len(buf) : hasPrefix(buf, lits[k], i)}
         IN  hits # {} /\ Embeds(buf, MinOf(hits) + Len(lits[k]), lits, k + 1)

LiteralsKept(r, in, out) ==
    LET lits == LiteralSpans(r, in, 0)
    IN  IF Len(lits) = 1 THEN out = lits[1]
        ELSE HasPrefix(out, lits[1]) /\ Embeds(out, Len(lits[1]), lits, 2)

C3_LiteralPreservation ==
    pc = "done" => LiteralsKept(rev, input, buffer)

----------------------------------------------------------------------------
(* C4. Unterminated tag: when the scan finds a tag-open with no tag-close  *)
(* at or after it, it writes every byte from that tag-open to the end of   *)
(* the buffer it scans as it is, substitutes nothing for it, and stops     *)
(* there.                                                                  *)

C4_UnterminatedTag ==
    pc = "done" =>
      \A s \in 0..Len(payload) :
        (UnterminatedAt(payload, s) /\ \A t \in 0..(s - 1) : ~UnterminatedAt(payload, t))
          => /\ Len(buffer) >= Len(payload) - s
             /\ SliceFrom(buffer, Len(buffer) - (Len(payload) - s)) = SliceFrom(payload, s)
             /\ cursor = s

\* a pass that substituted a tag and then stopped at an unterminated one
C4_Witness ==
    /\ pc = "done"
    /\ rev = "fast"
    /\ length = 2
    /\ cursor > 0
    /\ UnterminatedAt(payload, cursor)
    /\ SliceFrom(buffer, Len(buffer) - (Len(payload) - cursor)) = SliceFrom(payload, cursor)

----------------------------------------------------------------------------
(* C5. Termination: every iteration of the normalization loop and of the   *)
(* scan loop either moves its cursor forward or leaves the loop; no cursor *)
(* ever moves back or past the end of its buffer; and a pass that was      *)
(* entered ends.                                                           *)

CursorAdvances ==
    /\ (pc = "normalize" /\ pc' = "normalize") => normCursor' > normCursor
    /\ (pc = "scan" /\ pc' = "scan") => cursor' > cursor
    /\ normCursor' >= normCursor
    /\ cursor' >= cursor
    /\ normCursor' <= Len(input)
    /\ pc' \in {"scan", "done"} => cursor' <= Len(payload')

C5_Termination == [][CursorAdvances]_vars /\ ((pc = "entry") ~> (pc = "done"))

\* both loops have iterated
C5_Witness ==
    /\ pc = "scan"
    /\ normCursor > 0
    /\ cursor > 0
    /\ cursor < Len(payload)

----------------------------------------------------------------------------
(* C6. Length contract: for a length N of 1..99 written in one or two      *)
(* digits and a class keyword K of ABL, ABU, ABR, DIGIT, the tag           *)
(* {RAND;N;K} is replaced by exactly N bytes, each of the class of K.      *)

C6_Inputs ==
    {Tag2("raw", <<>>, L, K) : L \in DigitFields, K \in ClassKeywords}

C6_LengthContract ==
    (pc = "done" /\ input \in C6_Inputs) =>
      \A L \in DigitFields, K \in ClassKeywords :
        (DecVal(L) >= 1 /\ input = Tag2("raw", <<>>, L, K))
          => /\ Len(buffer) = DecVal(L)
             /\ AllIn(buffer, ClassChars(K))

\* {RAND;07;ABU} has become seven uppercase letters, in the revision of
\* parseLengthFast
C6_Witness ==
    /\ pc = "done"
    /\ rev = "fast"
    /\ input = Tag2("raw", <<>>, <<"0", "7">>, kwABU)
    /\ Len(buffer) = 7
    /\ AllIn(buffer, CharsAlphabetUpper)

----------------------------------------------------------------------------
(* C7. Range contract: for one or two digit integers a <= b the tag        *)
(* {RAND;a-b;ABL} is replaced by lowercase letters, L of them with         *)
(* a <= L <= b.                                                            *)
(* fastrand/randomizer.go has no range syntax: parseLength rejects the     *)
(* field and the length is the default 16.  TLC refutes the statement.     *)

C7_Inputs == {Tag2("raw", <<>>, L, kwABL) : L \in RangeFields}

C7_RangeContract ==
    (pc = "done" /\ input \in C7_Inputs) =>
      \A a \in RangeEnds, b \in RangeEnds :
        (DecVal(a) <= DecVal(b) /\ input = Tag2("raw", <<>>, a \o <<"-">> \o b, kwABL))
          => /\ DecVal(a) <= Len(buffer)
             /\ Len(buffer) <= DecVal(b)
             /\ AllIn(buffer, CharsAlphabetLower)

----------------------------------------------------------------------------
(* C8. Keyword choice contract: for a type field that is a comma-separated *)
(* list of keywords, one listed keyword is chosen and the whole            *)
(* substitution is that keyword's, of the declared length: {RAND;4;ABL,    *)
(* DIGIT} gives four lowercase letters or four digits.                     *)
(* fastrand/randomizer.go has no choice syntax: the list is an unknown     *)
(* keyword and the bytes are of the full charset.  TLC refutes the         *)
(* statement.                                                              *)

\* buf is what keyword K writes for the length n
ShapeOf(K, n, buf) ==
    IF K = kwHEX THEN Len(buf) = 2 * n /\ AllIn(buf, HexDigits)
    ELSE Len(buf) = n /\ AllIn(buf, ClassChars(K))

C8_Inputs ==
    {Tag2("raw", <<>>, L, KL) : L \in DigitFields, KL \in KeywordLists}

C8_KeywordChoice ==
    (pc = "done" /\ input \in C8_Inputs) =>
      \A L \in DigitFields, KL \in KeywordLists :
        (DecVal(L) >= 1 /\ input = Tag2("raw", <<>>, L, KL))
          => \E K \in SetOf(Split(KL, ",")) : ShapeOf(K, DecVal(L), buffer)

----------------------------------------------------------------------------
(* C9. Dialect equivalence: a tag whose delimiters are percent-encoded or  *)
(* HTML entities is normalized to the tag of its raw form and resolves to  *)
(* the same length and keyword; {RAND;8;HEX} in each of the three dialects *)
(* gives 16 lowercase hex characters.  The dialects are those of the       *)
(* revision that normalizes; the raw tag is read by both.                  *)

C9_Inputs ==
    {Tag2(d, om, L, K) : d \in Dialects, om \in Oms,
                         L \in DialectLenFields, K \in DialectTypeFields}

C9_DialectEquivalence ==
    (pc = "done" /\ input \in C9_Inputs) =>
      \A d \in Dialects, om \in Oms, L \in DialectLenFields, K \in DialectTypeFields :
        (input = Tag2(d, om, L, K) /\ (rev = "fast" \/ d = "raw"))
          => /\ payload = Tag2("raw", om, L, K)
             /\ rev = "fast" =>
                  \E range \in Draws, choice \in Draws :
                    LET h == resolveFast(startTag \o om \o <<sepTag>> \o L \o <<sepTag>> \o K,
                                         range, choice)
                    IN  length = h.length /\ typeKeyword = h.typeKeyword
             /\ (L = <<"8">> /\ K = kwHEX)
                  => Len(buffer) = 16 /\ AllIn(buffer, HexDigits) /\ length = 8

\* the HTML-entity spelling of {RAND;8;HEX} has become 16 hex characters
C9_Witness ==
    /\ pc = "done"
    /\ rev = "fast"
    /\ input = Tag2("html", <<>>, <<"8">>, kwHEX)
    /\ payload = Tag2("raw", <<>>, <<"8">>, kwHEX)
    /\ Len(buffer) = 16
    /\ AllIn(buffer, HexDigits)

----------------------------------------------------------------------------
(* C10. Invalid length fallback: in {RAND;L;K}, when L is not one or two   *)
(* digits of value 1..99 (empty, zero, three digits, a sign, a non-digit), *)
(* the length is the default 16 and the keyword is K; L is never taken as  *)
(* a length.                                                               *)
(* parseLength of fastrand/randomizer.go hands the field to strconv.Atoi,  *)
(* which reads a sign: +5 is the length 5.  TLC refutes the statement.     *)

BadLenFields == OddLenFields \cup {<<"0">>, <<"0", "0">>}

C10_Inputs == {Tag2("raw", <<>>, L, K) : L \in BadLenFields, K \in Keywords}

C10_InvalidLengthFallback ==
    (pc = "done" /\ input \in C10_Inputs) =>
      \A L \in BadLenFields, K \in Keywords :
        input = Tag2("raw", <<>>, L, K)
          => length = defaultLength /\ typeKeyword = K

----------------------------------------------------------------------------
(* C11. Disabled keyword fallback: when a built-in keyword has been        *)
(* disabled in the Engine configuration (WithDisabledKeywords), a tag      *)
(* naming it is replaced by a string of the declared length from the full  *)
(* charset, not by that keyword's generator: with HEX disabled,            *)
(* {RAND;8;HEX} gives 8 characters of the full charset, not 16 hex         *)
(* characters.                                                             *)
(* enabledKeywords is written by the option and read by no dispatcher:     *)
(* the switch of parseAndReplaceFast (and of parseAndReplace) sends HEX to *)
(* generateRandomHex whatever the configuration.  TLC refutes the          *)
(* statement.                                                              *)

Disabled(K) == K \in DOMAIN enabledKeywords /\ ~enabledKeywords[K]

C11_Inputs ==
    {Tag2("raw", <<>>, L, K) : L \in EngineLenFields, K \in allKeywords}

C11_DisabledKeywordFallback ==
    (pc = "done" /\ input \in C11_Inputs) =>
      \A L \in EngineLenFields, K \in allKeywords :
        (input = Tag2("raw", <<>>, L, K) /\ Disabled(K))
          => /\ Len(buffer) = DecVal(L)
             /\ AllIn(buffer, CharsAll)

----------------------------------------------------------------------------
(* C12. Case-insensitive keywords: keyword names are put in upper case     *)
(* when they are registered in the configuration (disable, custom charset, *)
(* custom keyword) and when the type field of a tag is resolved, so that a *)
(* tag naming an enabled built-in keyword in any letter case is replaced   *)
(* as its upper-case spelling is: {RAND;5;digit} and {RAND;5;Digit} as     *)
(* {RAND;5;DIGIT}.                                                         *)
(* The options register upper-case names, but the switch of                *)
(* parseAndReplaceFast (and of parseAndReplace) compares the bytes of the  *)
(* type field as they are: digit is an unknown keyword and gets the full   *)
(* charset.  TLC refutes the statement.                                    *)

\* every key of the three keyword maps is an upper-case name
RegisteredUpper ==
    \A k \in DOMAIN enabledKeywords \cup DOMAIN customCharsets \cup DOMAIN customKeywords :
      k = ToUpper(k)

\* the spellings of the class keywords and HEX among the tags resolved
Spellings ==
    {K \in EngineTypeFields : ToUpper(K) \in ClassKeywords \cup {kwHEX}}

C12_Inputs ==
    {Tag2("raw", <<>>, L, K) : L \in EngineLenFields, K \in Spellings}

C12_CaseInsensitiveKeywords ==
    /\ RegisteredUpper
    /\ (pc = "done" /\ input \in C12_Inputs) =>
         \A L \in EngineLenFields, K \in Spellings :
           (input = Tag2("raw", <<>>, L, K) /\ ~Disabled(ToUpper(K)))
             => ShapeOf(ToUpper(K), DecVal(L), buffer)

====
